---------------------------- MODULE Spec2Model ----------------------------
(***************************************************************************)
(* Model of the transcript-to-slide pipeline of process_pipeline.py:       *)
(* main, process_video_file, the multi-model fallback loop, the response   *)
(* extractor, the diagram normaliser, the timestamp aligner and the frame  *)
(* selector.                                                               *)
(*                                                                         *)
(* Python strings are sequences of one-character strings.  Python values   *)
(* (what json.loads returns) are tagged records: [t |-> "str", v |-> ..],  *)
(* [t |-> "int", ..], [t |-> "list", ..], [t |-> "dict", ..],              *)
(* [t |-> "bool", ..] and None.  Predicates look at the tag before the     *)
(* payload.                                                                *)
(***************************************************************************)
EXTENDS Integers, Sequences, FiniteSets, TLC

(***************************************************************************)
(* Python values                                                           *)
(***************************************************************************)
None == [t |-> "None"]
Str(s) == [t |-> "str", v |-> s]
Num(n) == [t |-> "int", v |-> n]
Bool(b) == [t |-> "bool", v |-> b]
List(l) == [t |-> "list", v |-> l]
Dict(f) == [t |-> "dict", v |-> f]

IsNone(x) == x.t = "None"
IsStr(x) == x.t = "str"
IsDict(x) == x.t = "dict"

\* Python truthiness: bool(x)
Truthy(x) ==
    CASE x.t = "None" -> FALSE
      [] x.t = "str" -> x.v # <<>>
      [] x.t = "int" -> x.v # 0
      [] x.t = "bool" -> x.v
      [] x.t = "list" -> x.v # <<>>
      [] x.t = "dict" -> DOMAIN x.v # {}

\* dict.get(key, default)
Get(d, key, default) == IF key \in DOMAIN d.v THEN d.v[key] ELSE default

\* x or y
Or(x, y) == IF Truthy(x) THEN x ELSE y

(***************************************************************************)
(* Python string operations                                                *)
(***************************************************************************)
Whitespace == {" ", "\n", "\t"}

Min(S) == CHOOSE x \in S : \A y \in S : x <= y
Max(S) == CHOOSE x \in S : \A y \in S : x >= y

\* s[i:] as a sequence (i is a 1-based position, may be Len(s)+1)
From(s, i) == SubSeq(s, i, Len(s))

\* s.startswith(p) at 1-based position i
MatchAt(s, i, p) ==
    /\ i >= 1
    /\ i + Len(p) - 1 <= Len(s)
    /\ \A k \in 1..Len(p) : s[i + k - 1] = p[k]

StartsWith(s, p) == MatchAt(s, 1, p)

\* p in s
Contains(s, p) == \E i \in 1..(Len(s) + 1) : MatchAt(s, i, p)

\* s.find(c) and s.rfind(c) for a one-character c; 0 stands for Python's -1
Find(s, c) ==
    LET hits == {i \in 1..Len(s) : s[i] = c}
    IN  IF hits = {} THEN 0 ELSE Min(hits)

RFind(s, c) ==
    LET hits == {i \in 1..Len(s) : s[i] = c}
    IN  IF hits = {} THEN 0 ELSE Max(hits)

\* s.strip(chars)
StripChars(s, chars) ==
    LET keep == {i \in 1..Len(s) : s[i] \notin chars}
    IN  IF keep = {} THEN <<>> ELSE SubSeq(s, Min(keep), Max(keep))

\* s.strip()
Strip(s) == StripChars(s, Whitespace)

\* s.replace(pat, "") for a non-empty pat: left to right, non-overlapping
RECURSIVE Remove(_, _)
Remove(s, pat) ==
    IF s = <<>> THEN <<>>
    ELSE IF MatchAt(s, 1, pat) THEN Remove(From(s, Len(pat) + 1), pat)
    ELSE <<s[1]>> \o Remove(Tail(s), pat)

LowerChar(c) ==
    CASE c = "T" -> "t"
      [] c = "D" -> "d"
      [] c = "M" -> "m"
      [] c = "F" -> "f"
      [] c = "G" -> "g"
      [] c = "V" -> "v"
      [] OTHER -> c

\* s.lower()
Lower(s) == [i \in 1..Len(s) |-> LowerChar(s[i])]

\* sep.join(parts)
RECURSIVE Join(_, _)
Join(sep, parts) ==
    IF parts = <<>> THEN <<>>
    ELSE IF Len(parts) = 1 THEN parts[1]
    ELSE parts[1] \o sep \o Join(sep, Tail(parts))

\* s.split(): the maximal runs of non-whitespace characters, in order
RECURSIVE SplitWs(_)
SplitWs(s) ==
    LET starts == {i \in 1..Len(s) : s[i] \notin Whitespace}
    IN  IF starts = {} THEN <<>>
        ELSE LET a == Min(starts)
                 stops == {i \in a..Len(s) : s[i] \in Whitespace}
                 b == IF stops = {} THEN Len(s) + 1 ELSE Min(stops)
             IN  <<SubSeq(s, a, b - 1)>> \o SplitWs(From(s, b))

\* The characters of s that are not whitespace
NonWs(s) == SelectSeq(s, LAMBDA c : c \notin Whitespace)

\* s.split(sep) for a one-character sep: always at least one part
RECURSIVE SplitOn(_, _)
SplitOn(s, sep) ==
    LET i == Find(s, sep)
    IN  IF i = 0 THEN <<s>>
        ELSE <<SubSeq(s, 1, i - 1)>> \o SplitOn(From(s, i + 1), sep)

(***************************************************************************)
(* json.loads (the standard decoder, strict mode) on the characters the    *)
(* model uses: objects, arrays, strings without escapes, non-negative      *)
(* integers, true, false, null.                                            *)
(***************************************************************************)
Digits == {"0", "1", "2"}
DigitVal(c) ==
    CASE c = "0" -> 0 [] c = "1" -> 1 [] c = "2" -> 2 [] c = "3" -> 3 [] c = "4" -> 4
      [] c = "5" -> 5 [] c = "6" -> 6 [] c = "7" -> 7 [] c = "8" -> 8 [] c = "9" -> 9

Fail == [ok |-> FALSE, val |-> None, pos |-> 0]
Ok(v, p) == [ok |-> TRUE, val |-> v, pos |-> p]

RECURSIVE skip_ws(_, _)
skip_ws(s, i) == IF i <= Len(s) /\ s[i] \in Whitespace THEN skip_ws(s, i + 1) ELSE i

\* s[i] is the opening quote; control characters are rejected inside a string
scanstring(s, i) ==
    LET ends == {j \in (i + 1)..Len(s) : s[j] = "\""}
    IN  IF ends = {} THEN Fail
        ELSE LET j == Min(ends)
             IN  IF \E k \in (i + 1)..(j - 1) : s[k] \in {"\n", "\t"} THEN Fail
                 ELSE Ok(Str(SubSeq(s, i + 1, j - 1)), j + 1)

RECURSIVE DigitsValue(_)
DigitsValue(ds) ==
    IF ds = <<>> THEN 0 ELSE 10 * DigitsValue(SubSeq(ds, 1, Len(ds) - 1)) + DigitVal(ds[Len(ds)])

\* s[i] is a digit: 0 | [1-9][0-9]*
scan_number(s, i) ==
    LET stops == {j \in i..Len(s) : s[j] \notin Digits}
        e == IF s[i] = "0" THEN i + 1
             ELSE IF stops = {} THEN Len(s) + 1 ELSE Min(stops)
    IN  Ok(Num(DigitsValue(SubSeq(s, i, e - 1))), e)

\* The decoder is written as a chain of steps, each handing what it scanned to
\* the next, so that nothing is scanned twice.
RECURSIVE scan_once(_, _), JSONObjectMembers(_, _, _), ObjectAfterKey(_, _, _),
          ObjectColon(_, _, _, _), ObjectAfterValue(_, _, _, _), ObjectAfterMember(_, _, _),
          ObjectNextKey(_, _, _), JSONArrayItems(_, _, _), ArrayAfterItem(_, _, _),
          ArrayAfterSpace(_, _, _)

\* j is the first non-blank position after "{"
ObjectFirst(s, j) ==
    IF j > Len(s) THEN Fail
    ELSE IF s[j] = "}" THEN Ok(Dict(<<>>), j + 1)
    ELSE IF s[j] # "\"" THEN Fail
    ELSE JSONObjectMembers(s, j, <<>>)

\* i is the position after "{"
JSONObject(s, i) == ObjectFirst(s, skip_ws(s, i))

\* i is the position of the opening quote of a key; pairs holds the members so far
JSONObjectMembers(s, i, pairs) == ObjectAfterKey(s, scanstring(s, i), pairs)

ObjectAfterKey(s, k, pairs) ==
    IF ~k.ok THEN Fail ELSE ObjectColon(s, k.val.v, skip_ws(s, k.pos), pairs)

ObjectColon(s, key, c, pairs) ==
    IF c > Len(s) \/ s[c] # ":" THEN Fail
    ELSE ObjectAfterValue(s, key, scan_once(s, skip_ws(s, c + 1)), pairs)

\* a key given twice keeps its last value
ObjectAfterValue(s, key, v, pairs) ==
    IF ~v.ok THEN Fail ELSE ObjectAfterMember(s, skip_ws(s, v.pos), (key :> v.val) @@ pairs)

ObjectAfterMember(s, e, pairs) ==
    IF e > Len(s) THEN Fail
    ELSE IF s[e] = "}" THEN Ok(Dict(pairs), e + 1)
    ELSE IF s[e] # "," THEN Fail
    ELSE ObjectNextKey(s, skip_ws(s, e + 1), pairs)

ObjectNextKey(s, n, pairs) ==
    IF n > Len(s) \/ s[n] # "\"" THEN Fail ELSE JSONObjectMembers(s, n, pairs)

\* j is the first non-blank position after "["
ArrayFirst(s, j) ==
    IF j > Len(s) THEN Fail
    ELSE IF s[j] = "]" THEN Ok(List(<<>>), j + 1)
    ELSE JSONArrayItems(s, j, <<>>)

\* i is the position after "["
JSONArray(s, i) == ArrayFirst(s, skip_ws(s, i))

JSONArrayItems(s, i, items) == ArrayAfterItem(s, scan_once(s, i), items)

ArrayAfterItem(s, v, items) ==
    IF ~v.ok THEN Fail ELSE ArrayAfterSpace(s, skip_ws(s, v.pos), Append(items, v.val))

ArrayAfterSpace(s, e, items) ==
    IF e > Len(s) THEN Fail
    ELSE IF s[e] = "]" THEN Ok(List(items), e + 1)
    ELSE IF s[e] # "," THEN Fail
    ELSE JSONArrayItems(s, skip_ws(s, e + 1), items)

scan_once(s, i) ==
    IF i > Len(s) THEN Fail
    ELSE IF s[i] = "\"" THEN scanstring(s, i)
    ELSE IF s[i] = "{" THEN JSONObject(s, i + 1)
    ELSE IF s[i] = "[" THEN JSONArray(s, i + 1)
    ELSE IF MatchAt(s, i, <<"n", "u", "l", "l">>) THEN Ok(None, i + 4)
    ELSE IF MatchAt(s, i, <<"t", "r", "u", "e">>) THEN Ok(Bool(TRUE), i + 4)
    ELSE IF MatchAt(s, i, <<"f", "a", "l", "s", "e">>) THEN Ok(Bool(FALSE), i + 5)
    ELSE IF s[i] \in Digits THEN scan_number(s, i)
    ELSE Fail

\* The decoded value r must be followed by nothing but whitespace
WholeText(s, r) == IF r.ok /\ skip_ws(s, r.pos) = Len(s) + 1 THEN r ELSE Fail

\* json.loads(s): [ok, val]; ok = FALSE stands for the JSONDecodeError
json_loads(s) == WholeText(s, scan_once(s, skip_ws(s, 1)))

(***************************************************************************)
(* Response repair / extractor                                             *)
(***************************************************************************)
\* The backquote character (a TLA+ string cannot hold the character itself)
Backquote == "backquote"
Fence == <<Backquote, Backquote, Backquote>>
FenceJson == Fence \o <<"j", "s", "o", "n">>

\* The match of ```(?:json)?\s*(\{.*?\})\s*``` that starts at position i:
\* the span <<a, b>> of group 1, or <<0, 0>> when there is no match at i.
FenceMatchAt(s, i) ==
    IF ~MatchAt(s, i, Fence) THEN <<0, 0>>
    ELSE LET p == IF MatchAt(s, i, FenceJson) THEN i + 7 ELSE i + 3
             a == skip_ws(s, p)
         IN  IF a > Len(s) \/ s[a] # "{" THEN <<0, 0>>
             ELSE LET closes == {b \in (a + 1)..Len(s) :
                                    /\ s[b] = "}"
                                    /\ MatchAt(s, skip_ws(s, b + 1), Fence)}
                  IN  IF closes = {} THEN <<0, 0>> ELSE <<a, Min(closes)>>

\* re.search(r"```(?:json)?\s*(\{.*?\})\s*```", s, re.DOTALL): group 1 of the
\* leftmost match, or found = FALSE
FenceSearch(s) ==
    LET starts == {i \in 1..Len(s) : FenceMatchAt(s, i)[1] # 0}
    IN  IF starts = {} THEN [found |-> FALSE, group |-> <<>>]
        ELSE LET m == FenceMatchAt(s, Min(starts))
             IN  [found |-> TRUE, group |-> SubSeq(s, m[1], m[2])]

\* re.sub(r',\s*([\]}])', r'\1', s)
RECURSIVE RemoveTrailingCommas(_)
RemoveTrailingCommas(s) ==
    IF s = <<>> THEN <<>>
    ELSE LET j == skip_ws(s, 2)
         IN  IF s[1] = "," /\ j <= Len(s) /\ s[j] \in {"]", "}"}
             THEN <<s[j]>> \o RemoveTrailingCommas(From(s, j + 1))
             ELSE <<s[1]>> \o RemoveTrailingCommas(Tail(s))

\* Without the regular expression: the fence markers are only deleted
Unfenced_DeleteOnly(s) ==
    IF Contains(s, Fence) THEN Strip(Remove(Remove(s, FenceJson), Fence)) ELSE s

\* The text safe_parse_json works on after its fence step
Unfenced(s) ==
    IF Contains(s, Fence)
    THEN IF FenceSearch(s).found THEN FenceSearch(s).group
         ELSE Strip(Remove(Remove(s, FenceJson), Fence))
    ELSE s

\* Without the inner try/except around the second json.loads: its error leaves
\* the function
ParseOrRepair_NoExcept(first, candidate) ==
    IF first.ok THEN first.val
    ELSE IF json_loads(RemoveTrailingCommas(candidate)).ok
         THEN json_loads(RemoveTrailingCommas(candidate)).val
         ELSE [t |-> "JSONDecodeError"]

\* The last step: parse the candidate, and once more with the commas before a
\* closing bracket or brace removed
ParseOrRepair(first, candidate) ==
    IF first.ok THEN first.val
    ELSE json_loads(RemoveTrailingCommas(candidate)).val

\* The step between the outermost braces of s, at start and end (0: not found)
ParseBetween(s, start, end) ==
    IF start = 0 \/ end = 0 \/ end <= start THEN None
    ELSE ParseOrRepair(json_loads(SubSeq(s, start, end)), SubSeq(s, start, end))

ParseOutermost(s) == ParseBetween(s, Find(s, "{"), RFind(s, "}"))

\* safe_parse_json(s): the parsed dict, or None
safe_parse_json(s) == IF s = <<>> THEN None ELSE ParseOutermost(Unfenced(s))

(***************************************************************************)
(* Text utilities, timestamp aligner, frame selector, diagram normaliser   *)
(***************************************************************************)
\* The typographic quotes clean_text replaces
RightSingleQuote == "u2019"
LeftDoubleQuote == "u201c"
RightDoubleQuote == "u201d"

CleanChar(c) ==
    CASE c = RightSingleQuote -> "'"
      [] c = LeftDoubleQuote -> "\""
      [] c = RightDoubleQuote -> "\""
      [] OTHER -> c

clean_text(s) == Join(<<" ">>, SplitWs([i \in 1..Len(s) |-> CleanChar(s[i])]))

\* words[i:j] of Python, for 0-based i <= j <= len(words)
Slice(words, i, j) == SubSeq(words, i + 1, j)

\* The while loop of chunk_text_by_words from word index i on (target >= 1)
RECURSIVE ChunkLoop(_, _, _)
ChunkLoop(words, target, i) ==
    IF i < Len(words)
    THEN LET j == IF Len(words) < i + target THEN Len(words) ELSE i + target
         IN  <<Join(<<" ">>, Slice(words, i, j))>> \o ChunkLoop(words, target, j)
    ELSE <<>>

\* text.split(" ") for text.split()
chunk_text_by_words_SplitOnSpace(text, target) == ChunkLoop(SplitOn(text, " "), target, 0)

chunk_text_by_words(text, target) == ChunkLoop(SplitWs(text), target, 0)

\* Without the two .lower() calls
find_start_time_for_chunk_CaseSensitive(chunk_text, segments) ==
    LET words == SplitWs(chunk_text)
        first_words == Join(<<" ">>, SubSeq(words, 1, IF Len(words) < 5 THEN Len(words) ELSE 5))
        hits == {k \in 1..Len(segments) : Contains(segments[k].text, first_words)}
    IN  IF hits # {} THEN segments[Min(hits)].start
        ELSE IF segments # <<>> THEN segments[1].start
        ELSE 0

\* segments: sequence of [start, text]; times are whole seconds
find_start_time_for_chunk(chunk_text, segments) ==
    LET words == SplitWs(chunk_text)
        first_words == Lower(Join(<<" ">>, SubSeq(words, 1, IF Len(words) < 5 THEN Len(words) ELSE 5)))
        hits == {k \in 1..Len(segments) : Contains(Lower(segments[k].text), first_words)}
    IN  IF hits # {} THEN segments[Min(hits)].start
        ELSE IF segments # <<>> THEN segments[1].start
        ELSE 0

\* f["time"] < target_time for f["time"] <= target_time
find_closest_frame_Before(target_time, frames) ==
    IF frames = <<>> THEN None
    ELSE LET later == {k \in 1..Len(frames) : frames[k].time >= target_time}
             stop == IF later = {} THEN Len(frames) + 1 ELSE Min(later)
         IN  IF stop = 1 THEN frames[1].path ELSE frames[stop - 1].path

\* frames: sequence of [path, time]; the loop stops at the first later frame
find_closest_frame(target_time, frames) ==
    IF frames = <<>> THEN None
    ELSE LET later == {k \in 1..Len(frames) : frames[k].time > target_time}
             stop == IF later = {} THEN Len(frames) + 1 ELSE Min(later)
         IN  IF stop = 1 THEN frames[1].path ELSE frames[stop - 1].path

\* extract_frames once ffmpeg has run: extracted_files is the sorted glob of
\* the frame directory, timestamps the pts_time values found in stderr, in
\* the order reported; a file without a reported value gets time 0
extract_frames(extracted_files, timestamps) ==
    [i \in 1..Len(extracted_files) |->
        [path |-> extracted_files[i],
         time |-> IF i <= Len(timestamps) THEN timestamps[i] ELSE 0]]

DiagramSpec(dt, m) == [t |-> "DiagramSpec", diagram_type |-> dt, mermaid |-> m]

s_mindmap == <<"m", "i", "n", "d", "m", "a", "p">>
s_flowchart == <<"f", "l", "o", "w", "c", "h", "a", "r", "t">>
s_hierarchy == <<"h", "i", "e", "r", "a", "r", "c", "h", "y">>
s_timeline == <<"t", "i", "m", "e", "l", "i", "n", "e">>
s_graph == <<"g", "r", "a", "p", "h">>
s_none == <<"n", "o", "n", "e">>
Indent == <<"\n", " ", " ">>
s_TD == <<" ", "T", "D">>

\* Only the empty text, not the blank one, gives no diagram
normalize_mermaid_BlankKept(diagram_type, mermaid) ==
    IF mermaid = <<>> THEN None
    ELSE DiagramSpec(Lower(diagram_type), Strip(StripChars(Strip(mermaid), {Backquote})))

\* normalize_mermaid(diagram_type, mermaid) for two strings
normalize_mermaid(diagram_type, mermaid) ==
    IF mermaid = <<>> \/ Strip(mermaid) = <<>> THEN None
    ELSE LET m == Strip(StripChars(Strip(mermaid), {Backquote}))
             dt == Lower(diagram_type)
         IN  IF dt = s_mindmap /\ ~StartsWith(Lower(m), s_mindmap)
                 THEN DiagramSpec(dt, s_mindmap \o Indent \o m)
             ELSE IF dt = s_flowchart /\ ~Contains(Lower(m), s_flowchart)
                 THEN DiagramSpec(dt, s_flowchart \o s_TD \o Indent \o m)
             ELSE IF dt = s_hierarchy /\ ~StartsWith(Lower(m), s_graph)
                 THEN DiagramSpec(dt, s_graph \o s_TD \o Indent \o m)
             ELSE IF dt = s_timeline /\ ~Contains(Lower(m), s_timeline)
                 THEN DiagramSpec(dt, s_flowchart \o s_TD \o Indent \o m)
             ELSE DiagramSpec(dt, m)

(***************************************************************************)
(* Bounds of the model                                                     *)
(***************************************************************************)
\* Most names in FALLBACK_MODELS
MaxFallbacks == 1
\* Most video files in VIDEO_DIR
MaxVideos == 2
\* Most words in a transcript
MaxWords == 2
\* The value of CHUNK_WORD_TARGET the model runs with
ChunkWordTarget == 1
\* Most words in a text chunk_text_by_words is called on, and the largest target
MaxTextWords == 4
MaxTarget == 3
\* Words of a chunk handed to the aligner (more than the five it looks at)
MaxAlignWords == 6
\* Caption segments handed to the aligner
MaxSegments == 2
\* Frames handed to the frame selector, and the latest capture time
MaxFrames == 3
MaxFrameTime == 3
\* Results a knowledge-graph search returns (more than the three that are used)
MaxResults == 4
\* Lines of a streamed answer
MaxLines == 3
\* Times main is started on the same directory of videos
MaxRuns == 2
\* Iterations of the loop of chunk_text_by_words that are followed
MaxIterations == 6

(***************************************************************************)
(* Configuration (class Config): os.getenv with its defaults.  An          *)
(* environment variable is None when unset, Str(chars) when set.           *)
(***************************************************************************)
VARIABLES env_MODEL_NAME, env_FALLBACK_MODELS

getenv(value, default) == IF IsNone(value) THEN default ELSE value.v

\* "qwen2.5-coder:7b" and "llama3:latest", abbreviated
DefaultModel == <<"q">>
DefaultFallbacks == <<"l">>

MODEL_NAME == getenv(env_MODEL_NAME, DefaultModel)

FALLBACK_MODELS ==
    LET parts == SplitOn(getenv(env_FALLBACK_MODELS, DefaultFallbacks), ",")
    IN  [k \in 1..Len(parts) |-> Strip(parts[k])]

CHUNK_WORD_TARGET == ChunkWordTarget

\* int(text) of Python for a text of decimal digits with an optional sign
int(text) ==
    CASE text[1] = "-" -> 0 - DigitsValue(Tail(text))
      [] text[1] = "+" -> DigitsValue(Tail(text))
      [] OTHER -> DigitsValue(text)

\* Config.CHUNK_WORD_TARGET, given the environment variable CHUNK_WORD_TARGET
ChunkWordTargetOf(env) == int(getenv(env, <<"4", "5", "0">>))

\* models_to_try of process_video_file
models_to_try == <<MODEL_NAME>> \o FALLBACK_MODELS

(***************************************************************************)
(* The texts the generation service (or a test double) can answer with     *)
(***************************************************************************)
Q(s) == <<"\"">> \o s \o <<"\"">>
k_title == <<"t", "i", "t", "l", "e">>
k_bullets == <<"b", "u", "l", "l", "e", "t", "s">>
k_notes == <<"n", "o", "t", "e", "s">>
k_diagram_type == <<"d", "i", "a", "g", "r", "a", "m", "_", "t", "y", "p", "e">>
k_mermaid == <<"m", "e", "r", "m", "a", "i", "d">>
k_response == <<"r", "e", "s", "p", "o", "n", "s", "e">>

\* {"title": "T", "bullets": ["b"], "diagram_type": "none"}
R_good ==
    <<"{">> \o Q(k_title) \o <<":", " ">> \o Q(<<"T">>) \o <<",", " ">>
    \o Q(k_bullets) \o <<":", " ", "[">> \o Q(<<"b">>) \o <<"]", ",", " ">>
    \o Q(k_diagram_type) \o <<":", " ">> \o Q(s_none) \o <<"}">>
\* ```json {"title": "U", "diagram_type": "mindmap", "mermaid": "A"} ``` in prose
R_diagram ==
    <<"o", "k", " ">> \o FenceJson \o <<"\n", "{">> \o Q(k_title) \o <<":">> \o Q(<<"U">>)
    \o <<",">> \o Q(k_diagram_type) \o <<":">> \o Q(s_mindmap) \o <<",">>
    \o Q(k_mermaid) \o <<":">> \o Q(<<"A">>) \o <<",", "}", "\n">> \o Fence
\* {}
R_empty == <<"{", "}">>
\* {"x": 1}
R_other_keys == <<"{">> \o Q(<<"x">>) \o <<":", " ", "1", "}">>
\* {"title": "T", "diagram_type": 1}
R_type_int ==
    <<"{">> \o Q(k_title) \o <<":">> \o Q(<<"T">>) \o <<",">>
    \o Q(k_diagram_type) \o <<":", "1", "}">>
\* {"bullets": 1}
R_bullets_int == <<"{">> \o Q(k_bullets) \o <<":", "1", "}">>
\* no JSON at all
R_prose == <<"o", "k">>

Responses == {R_good, R_diagram, R_empty, R_other_keys, R_type_int, R_bullets_int, R_prose}

(***************************************************************************)
(* call_local_llm                                                          *)
(***************************************************************************)
\* Whether the module global RATE_LIMIT_SECONDS that call_local_llm reads is
\* bound: the module binds only the property Config.RATE_LIMIT_SECONDS.
RateLimitNameBound == FALSE

\* The loop over r.iter_lines(): [ok, text]; ok = FALSE when an error escapes
\* the loop body (it is caught by the outer handler of call_local_llm).
RECURSIVE AssembleLines(_, _), AssembleLine(_, _, _)
AssembleLines(lines, full_text) ==
    IF lines = <<>> THEN [ok |-> TRUE, text |-> full_text]
    ELSE IF lines[1] = <<>> THEN AssembleLines(Tail(lines), full_text)
    ELSE AssembleLine(json_loads(lines[1]), Tail(lines), full_text)

\* The loop body for a line that json.loads decoded to obj (or did not)
AssembleLine(obj, rest, full_text) ==
    IF ~obj.ok THEN AssembleLines(rest, full_text)
    ELSE IF obj.val.t = "dict"
        THEN IF k_response \in DOMAIN obj.val.v
             THEN IF IsStr(obj.val.v[k_response])
                  THEN AssembleLines(rest, full_text \o obj.val.v[k_response].v)
                  ELSE [ok |-> FALSE, text |-> <<>>]
             ELSE AssembleLines(rest, full_text)
    ELSE IF obj.val.t = "list"
        THEN IF \E k \in 1..Len(obj.val.v) : IsStr(obj.val.v[k]) /\ obj.val.v[k].v = k_response
             THEN [ok |-> FALSE, text |-> <<>>]
             ELSE AssembleLines(rest, full_text)
    ELSE IF obj.val.t = "str"
        THEN IF Contains(obj.val.v, k_response)
             THEN [ok |-> FALSE, text |-> <<>>]
             ELSE AssembleLines(rest, full_text)
    ELSE [ok |-> FALSE, text |-> <<>>]

\* An HTTP exchange: [ok |-> FALSE] for a transport error or a non-success
\* status, [ok |-> TRUE, lines |-> ...] for a streamed answer.
HttpError == [ok |-> FALSE, lines |-> <<>>]
Stream(text) == [ok |-> TRUE,
                 lines |-> << <<"{">> \o Q(k_response) \o <<":">> \o Q(text) \o <<"}">>, <<>> >>]
HttpOutcomes == {HttpError, Stream(<<"o", "k">>)}

\* What call_local_llm returns once the stream is read: a is the assembled text
AfterStream(a) ==
    IF ~a.ok THEN None
    ELSE IF ~RateLimitNameBound THEN None
    ELSE IF Strip(a.text) # <<>> THEN Str(Strip(a.text)) ELSE None

\* call_local_llm given what the HTTP exchange does: the text, or None
call_local_llm(http) ==
    IF ~http.ok THEN None ELSE AfterStream(AssembleLines(http.lines, <<>>))

\* What a call of call_local_llm runs once the exchange succeeded: the stream
\* is read to its end, and the rate-limit sleep of line 445 follows if its
\* argument can be evaluated
CallEvents(http) ==
    IF http.ok /\ AssembleLines(http.lines, <<>>).ok
    THEN <<"stream_read">> \o (IF RateLimitNameBound THEN <<"rate_limit_sleep">> ELSE <<>>)
    ELSE <<>>

\* The model named in the request payload
payload_model(model_name) == IF model_name # <<>> THEN model_name ELSE MODEL_NAME

\* What a test double patched over call_local_llm can return
StubReturns == {None} \cup {Str(r) : r \in Responses}

(***************************************************************************)
(* State of a run of main                                                  *)
(***************************************************************************)
VARIABLES
    patched,        \* call_local_llm is replaced by a test double
    videos,         \* what list_local_videos returns: sequence of [stem, ext]
    files,          \* the file system: path -> content of the artifact files
    vi,             \* main: position in videos of the video being processed
    pc,             \* position in main / process_video_file
    outcome,        \* per process_video_file call of main, in order: [video, result]
    frames,         \* process_video_file: frames
    vtt_segments,   \* process_video_file: vtt_segments
    chunks,         \* process_video_file: chunks
    idx,            \* process_video_file: idx of the chunk loop (from 1)
    mi,             \* position in models_to_try of the loop variable model
    attempt,        \* the loop variable attempt
    llm_out,        \* process_video_file: llm_out
    slides,         \* process_video_file: slides
    calls,          \* history: model_name of every call_local_llm call for chunk idx
    judged,         \* history: per call of calls, whether the loop took it as a success
    requests,       \* history: model named by every HTTP request for chunk idx
    saw_parsed,     \* history: an attempt for chunk idx gave text that safe_parse_json parsed
    slide_chunks,   \* history: the chunk idx each record of slides was built for
    chunk_ok,       \* history: per finished chunk, whether the fallback loop left an llm_out
    last_called,    \* history: idx of the chunk of the latest call_local_llm call
    raised_at,      \* history: the step of process_video_file that raised, "" if none
    since_call,     \* history: what ran since the latest call_local_llm call was issued
    runs,           \* how many times main has been started
    call,           \* a function called on its own: [fn, a, b], fn = "" in a run of main
    result          \* what the call returned: [done, val]

vars == <<env_MODEL_NAME, env_FALLBACK_MODELS, patched, videos, files, vi, pc, outcome,
          frames, vtt_segments, chunks, idx, mi, attempt, llm_out, slides,
          calls, judged, requests, saw_parsed, slide_chunks, chunk_ok, last_called,
          raised_at, since_call, runs, call, result>>
\* A function called on its own, outside a run of main
unit == <<call, result>>
Pending == [done |-> FALSE, val |-> None]
Returned(v) == [done |-> TRUE, val |-> v]
config == <<env_MODEL_NAME, env_FALLBACK_MODELS, patched, videos, runs>>
\* What a return from process_video_file sets, apart from pc
returned == <<outcome, frames, vtt_segments, idx, mi, attempt, llm_out, calls, judged,
              requests, saw_parsed, last_called, raised_at, since_call>>
\* What stays after the return as the record of the call
kept == <<chunks, slides, slide_chunks, chunk_ok>>

\* Sequences over S of length lo..hi
SeqsOf(S, lo, hi) == UNION {[1..n -> S] : n \in lo..hi}

\* The names a FALLBACK_MODELS value lists between its commas
FallbackNames == {<<>>, <<" ", "a">>}
EnvFallbackValues ==
    {None} \cup {Str(Join(<<",">>, names)) : names \in SeqsOf(FallbackNames, 1, MaxFallbacks)}
EnvModelValues == {Str(<<"a">>)}

\* The video files VIDEO_DIR can hold, in the order the directory lists them:
\* the k-th file is v<k>.mp4 for odd k and the .mkv of the same stem for even k
VideoFile(k) == [stem |-> <<"v", IF k <= 2 THEN "1" ELSE "2">>,
                 ext |-> IF k % 2 = 1 THEN "mp4" ELSE "mkv"]
VideoLists == {[k \in 1..n |-> VideoFile(k)] : n \in 0..MaxVideos}

\* A raw transcript of n words
Word(k) == <<CASE k % 3 = 1 -> "a" [] k % 3 = 2 -> "b" [] OTHER -> "c">>
RawTranscript(n) == Join(<<" ", "\n">>, [k \in 1..n |-> Word(k)])
Transcripts == {RawTranscript(n) : n \in 0..MaxWords}

\* Caption segments and frame lists an upstream run can leave
SegmentLists == {<<[start |-> 0, text |-> <<"x">>], [start |-> 5, text |-> <<"b">>]>>}
FrameLists == {<<[path |-> "f_0001", time |-> 0], [path |-> "f_0002", time |-> 3]>>}

\* python-slugify on the characters of the model's stems
SlugChar(c) == IF c \in {"_", " ", "."} THEN "-" ELSE LowerChar(c)
slugify(s) == StripChars([i \in 1..Len(s) |-> SlugChar(s[i])], {"-"})

video_id == videos[vi].stem
slides_output_path(id) == <<"slides", slugify(id), "html">>
wav_path(id) == <<"audio", id, "wav">>
\* The frame images of a video: the files f_%04d.jpg of its frame directory
frames_path(id) == <<"frames", id, "jpg">>
txt_path(id) == <<"transcripts", id, "txt">>
vtt_path(id) == <<"transcripts", id, "vtt">>

exists(path) == path \in DOMAIN files
\* The file system after writing (or renaming a file of) content c to path
Written(fs, path, c) == (path :> c) @@ fs

Init ==
    /\ env_MODEL_NAME \in EnvModelValues
    /\ env_FALLBACK_MODELS \in EnvFallbackValues
    /\ patched \in BOOLEAN
    /\ videos \in VideoLists
    /\ files = <<>>
    /\ vi = 0
    /\ pc = "main"
    /\ outcome = <<>>
    /\ frames = <<>>
    /\ vtt_segments = <<>>
    /\ chunks = <<>>
    /\ idx = 0
    /\ mi = 1
    /\ attempt = 0
    /\ llm_out = None
    /\ slides = <<>>
    /\ calls = <<>>
    /\ judged = <<>>
    /\ requests = <<>>
    /\ saw_parsed = FALSE
    /\ slide_chunks = <<>>
    /\ chunk_ok = <<>>
    /\ last_called = 0
    /\ raised_at = ""
    /\ since_call = <<>>
    /\ runs = 1
    /\ call = [fn |-> "", a |-> <<>>, b |-> <<>>]
    /\ result = Pending

\* process_video_file is left with result r, raised in step where ("" for a
\* return), and main goes on at to: the locals are gone, and so is the history of
\* the chunk the call was at; the deck and its history stay as the record of
\* what the call did
Leave(r, where, to) ==
    /\ outcome' = Append(outcome, [video |-> videos[vi], result |-> r])
    /\ pc' = to
    /\ frames' = <<>>
    /\ vtt_segments' = <<>>
    /\ idx' = 0
    /\ mi' = 1
    /\ attempt' = 0
    /\ llm_out' = None
    /\ calls' = <<>>
    /\ judged' = <<>>
    /\ requests' = <<>>
    /\ saw_parsed' = FALSE
    /\ last_called' = 0
    /\ raised_at' = where
    /\ since_call' = <<>>

\* process_video_file returns: the for loop of main goes on
Return(r) == Leave(r, "", "main")

\* main: the for loop takes the next video and calls process_video_file
MainNextVideo ==
    /\ pc = "main"
    /\ vi < Len(videos)
    /\ vi' = vi + 1
    /\ pc' = "start"
    /\ frames' = <<>>
    /\ vtt_segments' = <<>>
    /\ chunks' = <<>>
    /\ idx' = 0
    /\ mi' = 1
    /\ attempt' = 0
    /\ llm_out' = None
    /\ slides' = <<>>
    /\ calls' = <<>>
    /\ judged' = <<>>
    /\ requests' = <<>>
    /\ saw_parsed' = FALSE
    /\ slide_chunks' = <<>>
    /\ chunk_ok' = <<>>
    /\ last_called' = 0
    /\ raised_at' = ""
    /\ since_call' = <<>>
    /\ UNCHANGED <<unit, config, files, outcome>>

\* main: the for loop is exhausted
MainDone ==
    /\ pc = "main"
    /\ vi = Len(videos)
    /\ pc' = "done"
    /\ UNCHANGED <<unit, config, files, vi, returned, kept>>

\* The except clause missing: the exception ends main
Raise_Uncaught(where) == Leave("exception", where, "done")

\* An exception raised in step where leaves process_video_file: the except
\* clause of main logs the error and the for loop goes on
Raise(where) == Leave("exception", where, "main")

\* The return after the log line missing: the audio step follows
SlidesExist_GoesOn ==
    /\ pc = "start"
    /\ exists(slides_output_path(video_id))
    /\ IF exists(wav_path(video_id))
       THEN UNCHANGED files
       ELSE files' = Written(files, wav_path(video_id), "wav")
    /\ pc' = "frames"
    /\ UNCHANGED <<unit, config, vi, returned, kept>>

\* process_video_file: the slide HTML already exists
SlidesExist ==
    /\ pc = "start"
    /\ exists(slides_output_path(video_id))
    /\ Return("skipped")
    /\ UNCHANGED <<unit, config, files, vi, kept>>

\* process_video_file: audio; extract_audio runs ffmpeg, which can fail
Audio ==
    /\ pc = "start"
    /\ ~exists(slides_output_path(video_id))
    /\ IF exists(wav_path(video_id))
       THEN /\ pc' = "frames"
            /\ UNCHANGED files
            /\ UNCHANGED returned
       ELSE \E ok \in BOOLEAN :
               IF ok THEN /\ files' = Written(files, wav_path(video_id), "wav")
                          /\ pc' = "frames"
                          /\ UNCHANGED returned
                     ELSE /\ Raise("audio")
                          /\ UNCHANGED files
    /\ UNCHANGED <<unit, config, vi, kept>>

\* process_video_file: extract_frames runs ffmpeg, which can fail
ExtractFrames ==
    /\ pc = "frames"
    /\ \E ok \in BOOLEAN :
          IF ok THEN /\ frames' \in FrameLists
                     /\ files' = Written(files, frames_path(video_id), "jpg")
                     /\ pc' = "transcribe"
                     /\ UNCHANGED <<outcome, vtt_segments, idx, mi, attempt, llm_out, calls,
                                    judged, requests, saw_parsed, last_called, raised_at,
                                    since_call>>
                ELSE /\ Raise("frames")
                     /\ UNCHANGED files
    /\ UNCHANGED <<unit, config, vi, kept>>

\* transcribe_audio(wav) given what whisper-cli does: [files, txt, vtt], txt and
\* vtt telling whether the returned dict holds the key
transcribe_audio(id, whisper, raw, segs) ==
    IF exists(txt_path(id)) /\ exists(vtt_path(id))
    THEN [files |-> files, txt |-> TRUE, vtt |-> TRUE]
    ELSE IF whisper = "fail" THEN [files |-> files, txt |-> FALSE, vtt |-> FALSE]
    ELSE LET fs1 == IF whisper \in {"txt", "both"}
                    THEN Written(files, txt_path(id), raw) ELSE files
             fs2 == IF whisper = "both" THEN Written(fs1, vtt_path(id), segs) ELSE fs1
         IN  [files |-> fs2,
              txt |-> txt_path(id) \in DOMAIN fs2,
              vtt |-> vtt_path(id) \in DOMAIN fs2]

\* process_video_file: transcribe_audio, then read, clean and chunk the transcript
Transcribe ==
    /\ pc = "transcribe"
    /\ \E whisper \in {"fail", "none", "txt", "both"}, raw \in Transcripts, segs \in SegmentLists :
          LET transcripts == transcribe_audio(video_id, whisper, raw, segs)
          IN  /\ files' = transcripts.files
              /\ IF ~transcripts.txt
                 THEN /\ Return("no_transcript")
                      /\ UNCHANGED chunks
                 ELSE /\ vtt_segments' = IF transcripts.vtt
                                         THEN transcripts.files[vtt_path(video_id)] ELSE <<>>
                      /\ chunks' = chunk_text_by_words(
                                       clean_text(transcripts.files[txt_path(video_id)]),
                                       CHUNK_WORD_TARGET)
                      /\ pc' = "loop"
                      /\ UNCHANGED <<outcome, frames, idx, mi, attempt, llm_out, calls,
                                     judged, requests, saw_parsed, last_called, raised_at,
                                     since_call>>
    /\ UNCHANGED <<unit, config, vi, slides, slide_chunks, chunk_ok>>

\* The chunk the loop is at
chunk == chunks[idx]
model == models_to_try[mi]

\* process_video_file: the chunk loop takes the next chunk and builds its prompt
NextChunk ==
    /\ pc = "loop"
    /\ idx < Len(chunks)
    /\ idx' = idx + 1
    /\ llm_out' = None
    /\ mi' = 1
    /\ attempt' = 0
    /\ calls' = <<>>
    /\ judged' = <<>>
    /\ requests' = <<>>
    /\ saw_parsed' = FALSE
    /\ pc' = "attempt"
    /\ UNCHANGED <<unit, config, files, vi, outcome, frames, vtt_segments, chunks, slides,
                   slide_chunks, chunk_ok, last_called, raised_at, since_call>>

\* range(3) for range(2)
AfterAttempt_ThreeTries(success) ==
    IF success THEN [mi |-> mi, attempt |-> attempt, pc |-> "body"]
    ELSE IF attempt + 1 < 3 THEN [mi |-> mi, attempt |-> attempt + 1, pc |-> "attempt"]
    ELSE IF mi < Len(models_to_try) THEN [mi |-> mi + 1, attempt |-> 0, pc |-> "attempt"]
    ELSE [mi |-> mi, attempt |-> attempt, pc |-> "body"]

\* The last candidate of models_to_try left out
AfterAttempt_SkipsLast(success) ==
    IF success THEN [mi |-> mi, attempt |-> attempt, pc |-> "body"]
    ELSE IF attempt + 1 < 2 THEN [mi |-> mi, attempt |-> attempt + 1, pc |-> "attempt"]
    ELSE IF mi + 1 < Len(models_to_try) THEN [mi |-> mi + 1, attempt |-> 0, pc |-> "attempt"]
    ELSE [mi |-> mi, attempt |-> attempt, pc |-> "body"]

\* Where the two nested loops stand after a pass: [mi, attempt, pc], pc = "body"
\* when both loops have ended and the rest of the chunk's body runs
AfterAttempt(success) ==
    IF success THEN [mi |-> mi, attempt |-> attempt, pc |-> "body"]
    ELSE IF attempt + 1 < 2 THEN [mi |-> mi, attempt |-> attempt + 1, pc |-> "attempt"]
    ELSE IF mi < Len(models_to_try) THEN [mi |-> mi + 1, attempt |-> 0, pc |-> "attempt"]
    ELSE [mi |-> mi, attempt |-> attempt, pc |-> "body"]

\* The slide record of a parsed object, or raised = TRUE when building it raises
\* (.lower() or .strip() on a value that is not a string)
BuildRecord(parsed, chunk_text, segs, frs, id) ==
    LET dt_raw == Or(Get(parsed, k_diagram_type, None), Str(s_none))
        mermaid_raw == Or(Get(parsed, k_mermaid, None), Str(<<>>))
    IN  IF ~IsStr(dt_raw) THEN [raised |-> TRUE, slide |-> None]
        ELSE IF Lower(dt_raw.v) # s_none /\ ~IsStr(mermaid_raw)
            THEN [raised |-> TRUE, slide |-> None]
        ELSE LET diagram_type == Lower(dt_raw.v)
                 diagram_spec == IF diagram_type # s_none
                                 THEN normalize_mermaid(diagram_type, mermaid_raw.v)
                                 ELSE None
                 start_time == find_start_time_for_chunk(chunk_text, segs)
             IN  [raised |-> FALSE,
                  slide |-> [title |-> Get(parsed, k_title, Str(<<>>)),
                             bullets |-> Get(parsed, k_bullets, List(<<>>)),
                             notes |-> Get(parsed, k_notes, Str(<<>>)),
                             diagram |-> diagram_spec,
                             start_time |-> start_time,
                             video_id |-> id,
                             screenshot |-> find_closest_frame(start_time, frs)]]

\* A record of defaults appended for the failed chunk
ChunkFailed_DefaultRecord ==
    /\ slides' = Append(slides, [title |-> Str(<<>>), bullets |-> List(<<>>),
                                 notes |-> Str(<<>>), diagram |-> None, start_time |-> 0,
                                 video_id |-> video_id, screenshot |-> None])
    /\ slide_chunks' = Append(slide_chunks, idx)
    /\ pc' = "loop"

\* The loops ended without a usable answer: the chunk is reported as failed
\* and the chunk loop continues
ChunkFailed ==
    /\ pc' = "loop"
    /\ UNCHANGED <<slides, slide_chunks>>

\* slides.insert(0, slide) for slides.append(slide)
AppendSlide_AtFront(built) ==
    /\ slides' = <<built.slide>> \o slides
    /\ slide_chunks' = <<idx>> \o slide_chunks
    /\ pc' = "loop"

\* The loops ended with an answer: the slide built from it is appended
AppendSlide(built) ==
    /\ slides' = Append(slides, built.slide)
    /\ slide_chunks' = Append(slide_chunks, idx)
    /\ pc' = "loop"

\* The rest of a pass of the inner loop: ret is what call_local_llm returned,
\* parsed what safe_parse_json made of it (None when ret is None), sent the
\* requests the call made, ran what ran inside the call, next where the loops
\* stand afterwards, and built the slide record of parsed; time.sleep(1) runs
\* unless the break is taken
Pass(ret, parsed, sent, ran, next, built) ==
    IF next.pc = "body" /\ Truthy(parsed) /\ built.raised
       THEN /\ Raise("build")
            /\ UNCHANGED <<slides, slide_chunks, chunk_ok>>
       ELSE /\ llm_out' = IF Truthy(parsed) THEN ret ELSE None
            /\ chunk_ok' = IF next.pc = "body" THEN Append(chunk_ok, Truthy(parsed))
                           ELSE chunk_ok
            /\ judged' = Append(judged, Truthy(parsed))
            /\ saw_parsed' = (saw_parsed \/ ~IsNone(parsed))
            /\ mi' = next.mi
            /\ attempt' = next.attempt
            /\ calls' = Append(calls, model)
            /\ requests' = requests \o sent
            /\ last_called' = idx
            /\ since_call' = ran \o (IF Truthy(parsed) THEN <<>> ELSE <<"backoff_sleep">>)
            /\ IF next.pc = "attempt"
               THEN /\ pc' = "attempt"
                    /\ UNCHANGED <<slides, slide_chunks>>
               ELSE IF Truthy(parsed) THEN AppendSlide(built) ELSE ChunkFailed
            /\ UNCHANGED <<outcome, frames, vtt_segments, idx, raised_at>>

\* The pass given what safe_parse_json made of the answer
Judge(ret, parsed, sent, ran) ==
    Pass(ret, parsed, sent, ran, AfterAttempt(Truthy(parsed)),
         IF Truthy(parsed) THEN BuildRecord(parsed, chunk, vtt_segments, frames, video_id)
         ELSE [raised |-> FALSE, slide |-> None])

\* safe_parse_json of the answers, computed once
ParsedAnswer == [r \in Responses |-> safe_parse_json(r)]

\* safe_parse_json(s), read off ParsedAnswer where it holds s
Parsed(s) == IF s \in DOMAIN ParsedAnswer THEN ParsedAnswer[s] ELSE safe_parse_json(s)

\* One pass of the inner loop: ret is what call_local_llm(prompt, model_name=model) returns
AttemptWith(ret, sent, ran) ==
    Judge(ret, IF Truthy(ret) THEN Parsed(ret.v) ELSE None, sent, ran)

\* process_video_file: one attempt, call_local_llm as the module defines it
Attempt ==
    /\ pc = "attempt"
    /\ ~patched
    /\ \E http \in HttpOutcomes :
          AttemptWith(call_local_llm(http), <<payload_model(model)>>, CallEvents(http))
    /\ UNCHANGED <<unit, config, files, vi, chunks>>

\* process_video_file: one attempt, call_local_llm replaced by a test double
AttemptPatched ==
    /\ pc = "attempt"
    /\ patched
    /\ \E ret \in StubReturns : AttemptWith(ret, <<>>, <<>>)
    /\ UNCHANGED <<unit, config, files, vi, chunks>>

\* The return after the error message missing: the empty deck is rendered
NoSlides_NoReturn ==
    /\ pc = "loop"
    /\ idx = Len(chunks)
    /\ slides = <<>>
    /\ files' = Written(files, slides_output_path(video_id), "html")
    /\ Return("rendered")
    /\ UNCHANGED <<unit, config, vi, kept>>

\* process_video_file: no slides were generated
NoSlides ==
    /\ pc = "loop"
    /\ idx = Len(chunks)
    /\ slides = <<>>
    /\ Return("no_slides")
    /\ UNCHANGED <<unit, config, files, vi, kept>>

\* render_slide_section iterates over the bullets: a value that cannot be
\* iterated raises
RenderRaises(deck) ==
    \E k \in 1..Len(deck) : deck[k].bullets.t \in {"int", "bool", "None"}

\* process_video_file: render_reveal_html writes the slide HTML
Render ==
    /\ pc = "loop"
    /\ idx = Len(chunks)
    /\ slides # <<>>
    /\ IF RenderRaises(slides)
       THEN /\ Raise("render")
            /\ UNCHANGED files
       ELSE /\ files' = Written(files, slides_output_path(video_id), "html")
            /\ Return("rendered")
    /\ UNCHANGED <<unit, config, vi, kept>>

Next ==
    \/ MainNextVideo
    \/ MainDone
    \/ SlidesExist
    \/ Audio
    \/ ExtractFrames
    \/ Transcribe
    \/ NextChunk
    \/ Attempt
    \/ AttemptPatched
    \/ NoSlides
    \/ Render

Spec == Init /\ [][Next]_vars

(***************************************************************************)
(* The pipeline started again on the same video: the artifact files of     *)
(* the earlier runs are in place.                                          *)
(***************************************************************************)
\* main is started again once it has ended
MainAgain ==
    /\ pc = "done"
    /\ runs < MaxRuns
    /\ runs' = runs + 1
    /\ pc' = "main"
    /\ vi' = 0
    /\ outcome' = <<>>
    /\ raised_at' = ""
    /\ chunks' = <<>>
    /\ slides' = <<>>
    /\ slide_chunks' = <<>>
    /\ chunk_ok' = <<>>
    /\ UNCHANGED <<unit, env_MODEL_NAME, env_FALLBACK_MODELS, patched, videos, files, frames,
                   vtt_segments, idx, mi, attempt, llm_out, calls, judged, requests,
                   saw_parsed, last_called, since_call>>

RerunInit == Init /\ videos = <<VideoFile(1)>>

RerunNext ==
    \/ Next
    \/ MainAgain

RerunSpec == RerunInit /\ [][RerunNext]_vars

(***************************************************************************)
(* The functions of the module called on their own                         *)
(***************************************************************************)
\* The state of main before it starts, for a call that does not run it
MainIdle ==
    /\ env_MODEL_NAME = None
    /\ env_FALLBACK_MODELS = None
    /\ patched = FALSE
    /\ videos = <<>>
    /\ files = <<>>
    /\ vi = 0
    /\ pc = "main"
    /\ outcome = <<>>
    /\ frames = <<>>
    /\ vtt_segments = <<>>
    /\ chunks = <<>>
    /\ idx = 0
    /\ mi = 1
    /\ attempt = 0
    /\ llm_out = None
    /\ slides = <<>>
    /\ calls = <<>>
    /\ judged = <<>>
    /\ requests = <<>>
    /\ saw_parsed = FALSE
    /\ slide_chunks = <<>>
    /\ chunk_ok = <<>>
    /\ last_called = 0
    /\ raised_at = ""
    /\ since_call = <<>>
    /\ runs = 0

\* The function of call returns v
Returns(fn, v) ==
    /\ call.fn = fn
    /\ ~result.done
    /\ result' = Returned(v)
    /\ UNCHANGED <<call, config, files, vi, pc, returned, kept>>

(***************************************************************************)
(* Knowledge-graph context and the prompt of a chunk                       *)
(***************************************************************************)
\* get_cognee_context(query): the context text, given whether the cognee
\* import succeeded and what cognee.search does (it raises, or returns results
\* each with a text attribute, None when it has none, and a str() form)
get_cognee_context(has_cognee, search) ==
    IF ~has_cognee THEN <<>>
    ELSE IF search.raises THEN <<>>
    ELSE LET used == SubSeq(search.results, 1, Min({3, Len(search.results)}))
             RelatedContext ==
                 <<"R", "e", "l", "a", "t", "e", "d", " ", "C", "o", "n", "t", "e", "x", "t", ":", " ">>
         IN  Join(<<"\n">>, [k \in 1..Len(used) |->
                               RelatedContext \o Or(used[k].text, Str(used[k].str)).v])

\* The outer try/except missing: an error of asyncio.get_event_loop() leaves
\* process_video_file
GraphContext_Uncaught(has_cognee, loop, search) ==
    IF ~has_cognee THEN Str(<<>>)
    ELSE IF loop = "raises" THEN [t |-> "raised"]
    ELSE IF loop = "running" THEN Str(<<>>)
    ELSE Str(get_cognee_context(has_cognee, search))

\* process_video_file, lines 685-698: graph_context of a chunk; loop tells
\* whether asyncio.get_event_loop() raises, gives a running loop or an idle one
GraphContext(has_cognee, loop, search) ==
    IF ~has_cognee THEN Str(<<>>)
    ELSE IF loop = "raises" THEN Str(<<>>)
    ELSE IF loop = "running" THEN Str(<<>>)
    ELSE Str(get_cognee_context(has_cognee, search))

\* build_llm_prompt_for_chunk: the parts of the prompt that vary
build_llm_prompt_for_chunk(chunk_text, id, i, total, graph_context) ==
    [t |-> "prompt",
     context_block |->
         IF graph_context # <<>>
         THEN <<"\n", "A", "d", "d", "i", "t", "i", "o", "n", "a", "l", " ", "K", "n", "o", "w", "l",
                    "e", "d", "g", "e", " ", "G", "r", "a", "p", "h", " ", "C", "o", "n", "t", "e",
                    "x", "t", ":", "\n">>
              \o graph_context \o <<"\n">>
         ELSE <<>>,
     idx |-> i, total |-> total, video_id |-> id, chunk_text |-> chunk_text]

\* process_video_file, lines 685-700: the prompt of a chunk, or the error that
\* leaves the function
ChunkPrompt(chunk_text, id, i, total, context) ==
    IF context.t = "raised" THEN context
    ELSE build_llm_prompt_for_chunk(chunk_text, id, i, total, context.v)

\* Texts of n words, separated by sep, with pad at both ends
Text(n, sep, pad) ==
    pad \o Join(sep, [k \in 1..n |-> IF k % 2 = 1 THEN <<"a">> ELSE <<"b", "c">>]) \o pad
Texts ==
    {Text(n, sep, pad) : n \in 0..MaxTextWords, sep \in {<<" ">>, <<"\n">>, <<" ", "\t">>},
                         pad \in {<<>>, <<" ">>}}
ChunkCalls ==
    {[fn |-> "chunk_text_by_words", a |-> text, b |-> target] :
        text \in Texts, target \in 1..MaxTarget}

\* Value texts for the member "a" of an object text; comma is put before
\* every closing bracket or brace of the value
ValueTexts(comma) ==
    << <<"1">>,
       <<"[", "1", ",", "2">> \o comma \o <<"]">>,
       <<"{", "\"", "b", "\"", ":", "1">> \o comma \o <<"}">>,
       <<"\"", "{", "}", "\"">>,
       <<"\"">> \o Fence \o <<"\"">>,
       <<"\"">> \o Fence \o <<"{", "}">> \o Fence \o <<"\"">>,
       <<"\"", ",", "}", "\"">> >>

\* The k-th object text, {"a": value}, and {} for k = 0
ObjectText(k, comma) ==
    IF k = 0 THEN <<"{">> \o comma \o <<"}">>
    ELSE <<"{", "\"", "a", "\"", ":", " ">> \o ValueTexts(comma)[k] \o comma \o <<"}">>

\* An object text as a model's answer carries it
Wrap(w, x) ==
    CASE w = "none" -> x
      [] w = "fence" -> Fence \o x \o Fence
      [] w = "fence json" -> FenceJson \o <<"\n">> \o x \o <<"\n">> \o Fence
      [] w = "prose" -> <<"s", " ">> \o FenceJson \o <<"\n">> \o x \o <<"\n">> \o Fence \o <<" ", "e">>
      [] w = "prose with braces" -> <<"{", "s", " ">> \o Fence \o x \o Fence \o <<" ", "}", "e">>
      [] w = "prose with fence" -> Fence \o <<"{", "}">> \o Fence \o <<" ">> \o Fence \o x \o Fence

\* Calls of safe_parse_json: b tells how the text was made (x: the object text
\* it carries, <<>> for a text that carries none)
ParseCalls ==
    {[fn |-> "safe_parse_json", a |-> Wrap(w, ObjectText(k, comma)),
      b |-> [x |-> ObjectText(k, <<>>), wrap |-> w, comma |-> comma # <<>>]] :
        k \in 0..Len(ValueTexts(<<>>)), comma \in {<<>>, <<",">>},
        w \in {"none", "fence", "fence json", "prose", "prose with braces", "prose with fence"}}
    \cup
    {[fn |-> "safe_parse_json", a |-> text, b |-> [x |-> <<>>, wrap |-> "text", comma |-> FALSE]] :
        text \in {<<>>, <<" ">>, <<"a", "b">>, <<"}", "{">>, <<"{", "a", "}">>, <<"{">>,
                  <<"[", "1", "]">>, <<"1">>, Fence, Fence \o <<"a">> \o Fence}}

\* Diagram types as a model may give them
DiagramTypes ==
    {s_mindmap, s_flowchart, s_hierarchy, s_timeline, s_none, <<"p", "i", "e">>,
     <<"M">> \o Tail(s_mindmap)}

\* Diagram texts: empty, blank, fence markers only, a body alone, a body under
\* a first line (bare, and fenced with blanks around), a body that names one
DiagramTexts ==
    LET FirstLines == {s_mindmap, <<"M">> \o Tail(s_mindmap), s_flowchart \o s_TD,
                       <<"F">> \o Tail(s_flowchart) \o s_TD, s_graph \o s_TD,
                       <<"G">> \o Tail(s_graph) \o s_TD, s_timeline}
    IN
    {<<>>, <<" ">>, <<"\n", " ">>, Fence, <<"A">>}
    \cup {line \o <<"\n", "A">> : line \in FirstLines}
    \cup {<<" ">> \o Fence \o line \o <<"\n", "A">> \o Fence \o <<"\n">> : line \in FirstLines}
    \cup {<<"A", " ">> \o line : line \in FirstLines}

DiagramCalls ==
    {[fn |-> "normalize_mermaid", a |-> dt, b |-> text] : dt \in DiagramTypes, text \in DiagramTexts}

\* One member of an object, or none when the key is absent
Member(key, value) == IF value = [t |-> "absent"] THEN <<>> ELSE key :> value

\* The objects a parsed answer may be: title, diagram_type and mermaid each
\* absent, null, or a value of the right or of another type
ParsedObjects ==
    {Dict(Member(k_title, title) @@ Member(k_diagram_type, dt) @@ Member(k_mermaid, mermaid)) :
        title \in {[t |-> "absent"], Str(<<"T">>)},
        dt \in {[t |-> "absent"], None, Num(1)} \cup {Str(d) : d \in DiagramTypes \cup {<<>>}},
        mermaid \in {[t |-> "absent"], None, Num(1)}
                    \cup {Str(m) : m \in {<<>>, <<" ">>, <<"A">>, Fence, s_mindmap \o <<"\n", "A">>}}}

\* The chunk, captions, frames and video id the records of BuildCalls are built with
BuildContext ==
    [chunk_text |-> <<"a">>, segs |-> <<[start |-> 1, text |-> <<"a">>]>>, frs |-> <<>>,
     id |-> <<"v">>]

\* The objects the attempt loop accepts (line 713) reach the record building
BuildCalls ==
    {[fn |-> "BuildRecord", a |-> parsed, b |-> BuildContext] :
        parsed \in {d \in ParsedObjects : Truthy(d)}}

\* Calls of the aligner: a chunk of n words (T d M f G v, and again) separated
\* by sep, and captions in time order whose texts hold no word of the chunk,
\* its first five words in the other letter case, its first six words after
\* another word, its first two words, or its first words two spaces apart
AlignCalls ==
    LET letters == <<"T", "d", "M", "f", "G", "v">>
        chunk_text(n, sep) == Join(sep, [k \in 1..n |-> <<letters[((k - 1) % 6) + 1]>>])
        captions == {<<"x">>,
                     <<"t", " ", "D", " ", "m", " ", "F", " ", "g">>,
                     <<"x", " ">> \o chunk_text(6, <<" ">>),
                     <<"T", " ", "d">>,
                     chunk_text(5, <<" ", " ">>)}
        segments(texts) == [k \in 1..Len(texts) |-> [start |-> 3 * k - 1, text |-> texts[k]]]
    IN  {[fn |-> "find_start_time_for_chunk", a |-> chunk_text(n, sep), b |-> segments(texts)] :
            n \in 0..MaxAlignWords, sep \in {<<" ">>, <<"\n", " ">>},
            texts \in SeqsOf(captions, 0, MaxSegments)}
        \cup
        {[fn |-> "find_start_time_for_chunk", a |-> text,
          b |-> <<[start |-> 0, text |-> <<"h", "e", "l", "l", "o", " ", "w", "o", "r", "l", "d">>],
                  [start |-> 5, text |-> <<"f", "o", "o", " ", "b", "a", "r">>]>>] :
            text \in {<<"f", "o", "o", " ", "b", "a", "r">>,
                      <<"f", "o", "o", " ", "b", "a", "r", " ", "b", "a", "z">>,
                      <<"f", "o", "o", " ", "b", "a", "r", " ", "b", "a", "z", " ", "q", " ", "r", " ", "s">>}}

\* Calls of the frame selector: the k-th frame is the k-th file of the frame
\* directory, the capture times are in any order
FrameCalls ==
    {[fn |-> "find_closest_frame", a |-> target,
      b |-> [k \in 1..Len(times) |-> [path |-> <<"f", k>>, time |-> times[k]]]] :
        target \in 0..(MaxFrameTime + 1), times \in SeqsOf(1..MaxFrameTime, 0, MaxFrames)}

\* Calls of the prompt step: a chunk, and in b whether cognee was imported, what
\* the event loop does and what the search does
PromptCalls ==
    LET Results == {[text |-> Str(<<"k">>), str |-> <<"r">>], [text |-> None, str |-> <<"r">>],
                    [text |-> Str(<<>>), str |-> <<>>]}
        Searches == {[raises |-> TRUE, results |-> <<>>]}
                    \cup {[raises |-> FALSE, results |-> rs] : rs \in SeqsOf(Results, 0, MaxResults)}
    IN  {[fn |-> "ChunkPrompt", a |-> <<"a">>,
          b |-> [has_cognee |-> has, loop |-> loop, search |-> search]] :
            has \in BOOLEAN, loop \in {"idle", "running", "raises"}, search \in Searches}

\* Calls of call_local_llm: a is what the HTTP exchange does, an error or a
\* stream of lines, each a JSON object with or without a response field, an
\* empty line, or a line that is no JSON
LlmCalls ==
    LET Lines == {<<>>, <<"o", "k">>, <<"{">> \o Q(<<"x">>) \o <<":", "1", "}">>,
                  <<"{">> \o Q(k_response) \o <<":">> \o Q(<<" ", "a">>) \o <<"}">>,
                  <<"{">> \o Q(k_response) \o <<":">> \o Q(<<"b", " ">>) \o <<"}">>,
                  <<"{">> \o Q(k_response) \o <<":">> \o Q(<<" ">>) \o <<"}">>}
    IN  {[fn |-> "call_local_llm", a |-> http, b |-> <<>>] :
            http \in {HttpError} \cup {[ok |-> TRUE, lines |-> ls] : ls \in SeqsOf(Lines, 0, MaxLines)}}

\* Calls of extract_frames once ffmpeg has run: a the image files found in the
\* frame directory, b the pts_time values reported, in non-decreasing order
\* and of any number
ExtractCalls ==
    {[fn |-> "extract_frames", a |-> [k \in 1..n |-> <<"f", k>>], b |-> times] :
        n \in 0..MaxFrames,
        times \in {ts \in SeqsOf(1..MaxFrameTime, 0, MaxFrames) :
                      \A k \in 1..(Len(ts) - 1) : ts[k] <= ts[k + 1]}}

CallChunkText == Returns("chunk_text_by_words", chunk_text_by_words(call.a, call.b))

CallSafeParseJson == Returns("safe_parse_json", safe_parse_json(call.a))

CallFindStartTime ==
    Returns("find_start_time_for_chunk", find_start_time_for_chunk(call.a, call.b))

CallFindClosestFrame == Returns("find_closest_frame", find_closest_frame(call.a, call.b))

CallChunkPrompt ==
    Returns("ChunkPrompt",
            ChunkPrompt(call.a, <<"v">>, 1, 1,
                        GraphContext(call.b.has_cognee, call.b.loop, call.b.search)))

CallLocalLlm == Returns("call_local_llm", call_local_llm(call.a))

CallExtractFrames == Returns("extract_frames", extract_frames(call.a, call.b))

CallNormalizeMermaid == Returns("normalize_mermaid", normalize_mermaid(call.a, call.b))

CallBuildRecord ==
    Returns("BuildRecord",
            BuildRecord(call.a, call.b.chunk_text, call.b.segs, call.b.frs, call.b.id))

UnitInit ==
    /\ MainIdle
    /\ result = Pending
    /\ \/ call \in ChunkCalls
       \/ call \in ParseCalls
       \/ call \in DiagramCalls
       \/ call \in BuildCalls
       \/ call \in AlignCalls
       \/ call \in FrameCalls
       \/ call \in PromptCalls
       \/ call \in LlmCalls
       \/ call \in ExtractCalls

UnitNext ==
    \/ CallChunkText
    \/ CallSafeParseJson
    \/ CallNormalizeMermaid
    \/ CallBuildRecord
    \/ CallFindStartTime
    \/ CallFindClosestFrame
    \/ CallChunkPrompt
    \/ CallLocalLlm
    \/ CallExtractFrames

UnitSpec == UnitInit /\ [][UnitNext]_vars

(***************************************************************************)
(* chunk_text_by_words one iteration of its while loop at a time, on the   *)
(* target Config.CHUNK_WORD_TARGET reads from the environment.  call.a is  *)
(* the text, call.b the environment variable; result.val holds the word    *)
(* index i and the chunks so far, and the returned list once done.         *)
(***************************************************************************)
\* The values of the environment variable: unset, or a signed digit
TargetEnvs ==
    {None} \cup {Str(sign \o <<d>>) : sign \in {<<>>, <<"-">>, <<"+">>},
                                     d \in {c \in {"0", "1", "2", "3", "4", "5", "6", "7", "8", "9"} :
                                                DigitVal(c) <= MaxTarget}}
ChunkingCalls ==
    {[fn |-> "chunking", a |-> text, b |-> env] : text \in Texts, env \in TargetEnvs}

\* words[i:j] of Python: a negative bound counts from the end, and both
\* are clamped to the list
PySlice(words, i, j) ==
    LET n == Len(words)
        Bound(k) == IF k < 0 THEN Max({0, n + k}) ELSE Min({k, n})
    IN  SubSeq(words, Bound(i) + 1, Bound(j))

\* One iteration of the while loop
ChunkIteration ==
    /\ call.fn = "chunking"
    /\ ~result.done
    /\ LET words == SplitWs(call.a)
           target == ChunkWordTargetOf(call.b)
           i == result.val.i
           j == Min({Len(words), i + target})
       IN  /\ i < Len(words)
           /\ Len(result.val.chunks) < MaxIterations
           /\ result' = [done |-> FALSE,
                         val |-> [i |-> j,
                                  chunks |-> Append(result.val.chunks,
                                                    Join(<<" ">>, PySlice(words, i, j)))]]
    /\ UNCHANGED <<call, config, files, vi, pc, returned, kept>>

\* The loop condition fails: chunk_text_by_words returns chunks
ChunkReturn ==
    /\ call.fn = "chunking"
    /\ ~result.done
    /\ result.val.i >= Len(SplitWs(call.a))
    /\ result' = Returned(result.val.chunks)
    /\ UNCHANGED <<call, config, files, vi, pc, returned, kept>>

ChunkingInit ==
    /\ MainIdle
    /\ call \in ChunkingCalls
    /\ result = [done |-> FALSE, val |-> [i |-> 0, chunks |-> <<>>]]

ChunkingNext ==
    \/ ChunkIteration
    \/ ChunkReturn

ChunkingSpec == ChunkingInit /\ [][ChunkingNext]_vars

(***************************************************************************)
(* Properties                                                              *)
(***************************************************************************)
Last(s) == s[Len(s)]
IsPrefix(s, t) == Len(s) <= Len(t) /\ \A k \in 1..Len(s) : s[k] = t[k]
\* [m1, m1, m2, m2, ..., mk, mk]
Doubled(ms) == [k \in 1..(2 * Len(ms)) |-> ms[(k + 1) \div 2]]
Count(s, x) == Cardinality({k \in 1..Len(s) : s[k] = x})
Increasing(s) == \A j, k \in 1..Len(s) : j < k => s[j] < s[k]

\* The latest call of process_video_file has ended
VideoOver == pc \in {"main", "done"} /\ vi > 0
LastResult == outcome[Len(outcome)].result
\* The chunk loop of the latest call went through all the chunks
ChunksDone ==
    \/ pc = "loop" /\ idx = Len(chunks)
    \/ VideoOver /\ LastResult \in {"rendered", "no_slides"}
    \/ VideoOver /\ raised_at = "render"
\* A slide record with something to show
HasContent(slide) ==
    \/ Truthy(slide.title)
    \/ Truthy(slide.bullets)
    \/ Truthy(slide.notes)
    \/ ~IsNone(slide.diagram)

C2_StopsOnParse == saw_parsed => pc # "attempt"

\* C3: an attempt for which safe_parse_json returns an object (not None),
\* whatever its keys, is judged successful: the chunk is not retried, and when
\* its loops are over it is not reported as failed.
C3_ParsedIsSuccess ==
    saw_parsed => /\ pc = "loop"
                  /\ Len(chunk_ok) = idx
                  /\ chunk_ok[idx]

\* C4: for each chunk the generation service gets at most 2 requests naming
\* any one model, whatever MODEL_NAME and FALLBACK_MODELS are.
C4_TwoPerModel == \A k \in 1..Len(requests) : Count(requests, requests[k]) <= 2

\* C5: when every attempt on every candidate fails for a chunk, the loops end
\* after exactly 2 x (number of candidates) calls, nothing is raised, the chunk
\* is reported as failed and has no record, and the chunk loop goes on: the
\* next chunk, if any, is attempted.
C5_AllFail ==
    LET k == Len(chunk_ok)
    IN  (k > 0 /\ ~chunk_ok[k]) =>
           /\ pc = "loop" => /\ idx = k
                             /\ raised_at = ""
                             /\ Len(calls) = 2 * Len(models_to_try)
                             /\ \A j \in 1..Len(judged) : ~judged[j]
           /\ pc = "attempt" => idx = k + 1
           /\ VideoOver => (k = Len(chunks) \/ raised_at = "build")
           /\ \A j \in 1..Len(slide_chunks) : slide_chunks[j] # k

\* C5: the first chunk failed and a call has been made for the second
C5_Witness ==
    /\ pc = "attempt"
    /\ idx = 2
    /\ chunk_ok = <<FALSE>>
    /\ calls # <<>>
    /\ last_called = 2

\* C6 as stated: after all chunks of a video are processed the deck holds
\* exactly one record per chunk, failed chunks included.
C6_OnePerChunk == ChunksDone => Len(slides) = Len(chunks)

\* C6, amended: after all chunks of a video are processed the deck holds
\* exactly one record for each chunk whose fallback loop ended with an answer,
\* in chunk order, and no record for a chunk whose generation failed.
C6_OnePerAnsweredChunk ==
    ChunksDone =>
       /\ Len(chunk_ok) = Len(chunks)
       /\ Len(slides) = Len(slide_chunks)
       /\ Increasing(slide_chunks)
       /\ {slide_chunks[j] : j \in 1..Len(slide_chunks)} = {k \in 1..Len(chunks) : chunk_ok[k]}

\* C6: two chunks, the first failed, the second answered: one record
C6_Witness ==
    /\ ChunksDone
    /\ chunk_ok = <<FALSE, TRUE>>
    /\ slide_chunks = <<2>>
    /\ Len(slides) = 1

\* C7: the chunks of a video are processed one at a time in increasing index
\* order: the chunk at an attempt is the one after the chunks already finished,
\* the latest call before its first call was for the chunk before it, and the
\* records of the deck are in increasing chunk order, at most one per chunk.
C7_InOrder ==
    /\ idx \in 0..Len(chunks)
    /\ pc = "attempt" => /\ idx = Len(chunk_ok) + 1
                         /\ last_called = IF calls = <<>> THEN idx - 1 ELSE idx
    /\ pc = "loop" => /\ idx = Len(chunk_ok)
                      /\ last_called = idx
    /\ Len(slides) = Len(slide_chunks)
    /\ Increasing(slide_chunks)
    /\ \A j \in 1..Len(slide_chunks) : slide_chunks[j] \in 1..Len(chunks)

\* C7: a deck with the records of chunks 1 and 2
C7_Witness ==
    /\ pc = "loop"
    /\ slide_chunks = <<1, 2>>
    /\ last_called = 2

C9_EveryVideo ==
    /\ vi \in 0..Len(videos)
    /\ Len(outcome) = IF pc \in {"main", "done"} THEN vi ELSE vi - 1
    /\ \A k \in 1..Len(outcome) : outcome[k].video = videos[k]
    /\ pc = "done" => Len(outcome) = Len(videos)

\* C9: the first video raised, the second was processed and rendered
C9_Witness ==
    /\ pc = "done"
    /\ Len(outcome) = 2
    /\ outcome[1].result = "exception"
    /\ outcome[2].result = "rendered"

\* C10: an error raised while building the record of one chunk affects only
\* that chunk: the call does not end with the exception, and the records built
\* for the other chunks are rendered.
C10_OnlyThatChunk ==
    (VideoOver /\ raised_at = "build") =>
       /\ LastResult # "exception"
       /\ slides # <<>> => exists(slides_output_path(video_id))

\* C11: for every text and every positive target T, chunk_text_by_words
\* returns the whitespace-delimited words of the text in consecutive blocks
\* joined by single spaces: every chunk is non-empty, every chunk but the last
\* has exactly T words, the last has 1..T, the chunks' words in order are the
\* text's words, and a text without words gives the empty sequence.
C11_Chunks ==
    (call.fn = "chunk_text_by_words" /\ result.done) =>
       LET words == SplitWs(call.a)
           T == call.b
           cs == result.val
           n == Len(words)
           m == (n + T - 1) \div T
       IN  /\ Len(cs) = m
           /\ NonWs(call.a) = NonWs(Join(<<>>, cs))
           /\ NonWs(call.a) = Join(<<>>, words)
           /\ \A k \in 1..m :
                 LET last == IF k * T < n THEN k * T ELSE n
                 IN  /\ cs[k] # <<>>
                     /\ cs[k] = Join(<<" ">>, SubSeq(words, (k - 1) * T + 1, last))
                     /\ SplitWs(cs[k]) = SubSeq(words, (k - 1) * T + 1, last)
                     /\ k < m => Len(SplitWs(cs[k])) = T
                     /\ Len(SplitWs(cs[k])) \in 1..T

\* C11: three words in chunks of two: a full chunk and a last chunk of one word
C11_Witness ==
    /\ call.fn = "chunk_text_by_words"
    /\ result.done
    /\ Len(SplitWs(call.a)) = 3
    /\ call.b = 2
    /\ result.val = << <<"a", " ", "b", "c">>, <<"a">> >>

\* C12: for every input text, the empty text and texts without a brace
\* included, safe_parse_json returns a parsed object or None: no error leaves it.
C12_ObjectOrNone ==
    (call.fn = "safe_parse_json" /\ result.done) => result.val.t \in {"dict", "None"}

\* C12: a text whose braces hold no JSON has been answered with None, after
\* both json.loads calls failed
C12_Witness ==
    /\ call.fn = "safe_parse_json"
    /\ result.done
    /\ call.a = <<"{", "a", "}">>
    /\ ~json_loads(call.a).ok
    /\ IsNone(result.val)

\* C13: whenever the full text is itself a well-formed JSON object,
\* safe_parse_json returns exactly what a direct parse of the full text gives,
\* also when string values hold fence markers or braces.
C13_DirectParseFirst ==
    (call.fn = "safe_parse_json" /\ result.done /\ json_loads(call.a).ok
        /\ IsDict(json_loads(call.a).val))
    => result.val = json_loads(call.a).val

\* The calls C14 is about: an object text inside a fence, with or without
\* prose around it, or with a comma put before its closing brackets and braces
Carried ==
    /\ call.fn = "safe_parse_json"
    /\ result.done
    /\ call.b.wrap # "text"
    /\ call.b.wrap # "none" \/ call.b.comma

Recognized == {s_mindmap, s_flowchart, s_hierarchy, s_timeline}

\* The directive keyword of a recognized type
DirectiveKeyword(dt) ==
    CASE dt = s_mindmap -> s_mindmap
      [] dt = s_flowchart -> s_flowchart
      [] dt = s_hierarchy -> s_graph
      [] dt = s_timeline -> s_flowchart

\* A slide record has been built from the object call.a without an error
Built == call.fn = "BuildRecord" /\ result.done /\ ~result.val.raised

\* normalize_mermaid has returned for a recognized type and a text that is not blank
Normalized ==
    /\ call.fn = "normalize_mermaid"
    /\ result.done
    /\ Lower(call.a) \in Recognized
    /\ Strip(call.b) # <<>>

\* C15: a parsed object whose diagram_type is a text other than mindmap,
\* flowchart, hierarchy, timeline and none is treated as none: the slide
\* record built from it carries no diagram.
C15_UnknownTypeIsNone ==
    (/\ Built
     /\ IsStr(Get(call.a, k_diagram_type, None))
     /\ Lower(Get(call.a, k_diagram_type, None).v) \notin Recognized \cup {s_none, <<>>})
    => IsNone(result.val.slide.diagram)

\* C16: for every parsed object the attempt loop accepts, the slide record is
\* built without an error, and every missing key has its default: title and
\* notes the empty text, bullets the empty list, diagram_type and mermaid no
\* diagram.
C16_DefaultsNoError ==
    (call.fn = "BuildRecord" /\ result.done) =>
        /\ ~result.val.raised
        /\ k_title \notin DOMAIN call.a.v => result.val.slide.title = Str(<<>>)
        /\ k_bullets \notin DOMAIN call.a.v => result.val.slide.bullets = List(<<>>)
        /\ k_notes \notin DOMAIN call.a.v => result.val.slide.notes = Str(<<>>)
        /\ k_diagram_type \notin DOMAIN call.a.v => IsNone(result.val.slide.diagram)
        /\ k_mermaid \notin DOMAIN call.a.v => IsNone(result.val.slide.diagram)

\* C17: for every recognized type and every text that is not blank, the text
\* of the DiagramSpec returned begins, letter case aside, with the directive
\* keyword of the type.
C17_BeginsWithDirective ==
    Normalized =>
        /\ ~IsNone(result.val)
        /\ StartsWith(Lower(result.val.mermaid), DirectiveKeyword(Lower(call.a)))

\* C18: a directive line is prepended exactly when the directive keyword of
\* the type does not begin the trimmed text: a text that begins with it comes
\* back with only the surrounding whitespace and fence markers removed, any
\* other text comes back with the directive in front.
C18_PrefixedExactlyWhenAbsent ==
    Normalized =>
        LET m == Strip(StripChars(Strip(call.b), {Backquote}))
            keyword == DirectiveKeyword(Lower(call.a))
        IN  IF StartsWith(Lower(m), keyword)
            THEN result.val.mermaid = m
            ELSE /\ result.val.mermaid # m
                 /\ StartsWith(result.val.mermaid, keyword)

\* C19: a slide record carries a diagram only if the parsed diagram_type is
\* not none and the diagram text is not empty after trimming, and
\* normalize_mermaid returns no diagram for an empty or blank text whatever
\* the type.
C19_DiagramOnlyIfTypeAndText ==
    /\ (Built /\ ~IsNone(result.val.slide.diagram)) =>
          /\ IsStr(Get(call.a, k_diagram_type, None))
          /\ Lower(Get(call.a, k_diagram_type, None).v) \notin {s_none, <<>>}
          /\ IsStr(Get(call.a, k_mermaid, None))
          /\ Strip(Get(call.a, k_mermaid, None).v) # <<>>
    /\ (call.fn = "normalize_mermaid" /\ result.done /\ Strip(call.b) = <<>>) =>
          IsNone(result.val)

\* C19: a record with a mindmap diagram has been built
C19_Witness ==
    /\ Built
    /\ Get(call.a, k_diagram_type, None) = Str(s_mindmap)
    /\ Get(call.a, k_mermaid, None) = Str(<<"A">>)
    /\ result.val.slide.diagram = DiagramSpec(s_mindmap, s_mindmap \o Indent \o <<"A">>)

\* The caption text holds, letter case aside, the words joined by single spaces
Holds(text, words) ==
    \E i \in 1..(Len(text) + 1) :
        /\ i + Len(Join(<<" ">>, words)) - 1 <= Len(text)
        /\ Lower(SubSeq(text, i, i + Len(Join(<<" ">>, words)) - 1)) = Lower(Join(<<" ">>, words))

\* C20: find_start_time_for_chunk returns the start of the first segment, in
\* list order, whose text holds the chunk's first five words (letter case
\* aside); the first segment's start when no segment does; 0 when there is no
\* segment: always a start time of the list or 0.
C20_FirstMatchOrFirst ==
    (call.fn = "find_start_time_for_chunk" /\ result.done) =>
        LET words == SplitWs(call.a)
            five == SubSeq(words, 1, Min({5, Len(words)}))
            segs == call.b
            match == {k \in 1..Len(segs) : Holds(segs[k].text, five)}
        IN  /\ \A k \in match : (\A j \in 1..(k - 1) : j \notin match) => result.val = segs[k].start
            /\ (match = {} /\ segs # <<>>) => result.val = segs[1].start
            /\ segs = <<>> => result.val = 0
            /\ result.val \in {segs[k].start : k \in 1..Len(segs)} \cup {0}

\* C20: a chunk of six words whose first five are held, in the other letter
\* case, by the second caption only
C20_Witness ==
    /\ call.fn = "find_start_time_for_chunk"
    /\ result.done
    /\ Len(SplitWs(call.a)) = 6
    /\ Len(call.b) = 2
    /\ call.b[1].text = <<"x">>
    /\ call.b[2].text = <<"t", " ", "D", " ", "m", " ", "F", " ", "g">>
    /\ result.val = call.b[2].start

\* C21: with the captions (0, "hello world"), (5, "foo bar") and a chunk whose
\* text starts with "foo bar baz", find_start_time_for_chunk returns 5: the
\* chunk is anchored to the caption its leading words begin with, although
\* the caption is shorter than the chunk's first five words.
C21_ShorterCaptionAnchors ==
    (/\ call.fn = "find_start_time_for_chunk"
     /\ result.done
     /\ Len(call.b) = 2
     /\ call.b[2].text = <<"f", "o", "o", " ", "b", "a", "r">>
     /\ StartsWith(call.a, <<"f", "o", "o", " ", "b", "a", "r", " ", "b", "a", "z">>))
    => result.val = 5

\* The frame list is in non-decreasing time order
InTimeOrder(frs) == \A k \in 1..(Len(frs) - 1) : frs[k].time <= frs[k + 1].time

\* C22: for frames in non-decreasing time order, find_closest_frame returns
\* the path of the last frame whose time is not after the target (the later
\* one of frames with the same time), the first frame's path when every frame
\* is after the target, and None for the empty list.
C22_LatestNotAfter ==
    (call.fn = "find_closest_frame" /\ result.done /\ InTimeOrder(call.b)) =>
        LET not_after == {k \in 1..Len(call.b) : call.b[k].time <= call.a}
        IN  IF call.b = <<>> THEN result.val = None
            ELSE IF not_after = {} THEN result.val = call.b[1].path
            ELSE result.val = call.b[Max(not_after)].path

\* C22: of three frames at times 1, 2, 2 the target 2 has selected the third
C22_Witness ==
    /\ call.fn = "find_closest_frame"
    /\ result.done
    /\ call.a = 2
    /\ Len(call.b) = 3
    /\ call.b[1].time = 1 /\ call.b[2].time = 2 /\ call.b[3].time = 2
    /\ result.val = call.b[3].path

\* The artifact files process_video_file reads or writes for a video file
ArtifactPaths(video) ==
    {wav_path(video.stem), frames_path(video.stem), txt_path(video.stem),
     vtt_path(video.stem), slides_output_path(video.stem)}

\* C23: for any two distinct video files of a batch the artifact files that
\* process_video_file writes or reuses are disjoint, so that every video gets
\* the deck and output it gets when processed alone: in a batch that starts
\* without artifacts no video finds another video's file, and none is skipped.
C23_DisjointArtifacts ==
    /\ \A i, j \in 1..vi :
          videos[i] # videos[j] =>
             ArtifactPaths(videos[i]) \cap ArtifactPaths(videos[j]) \cap DOMAIN files = {}
    /\ \A k \in 1..Len(outcome) :
          (\A j \in 1..(k - 1) : outcome[j].video # outcome[k].video) =>
             outcome[k].result # "skipped"

C25_FailureGivesEmptyContext ==
    (/\ call.fn = "ChunkPrompt"
     /\ result.done
     /\ (~call.b.has_cognee \/ call.b.loop = "raises" \/ call.b.search.raises))
    => /\ result.val.t = "prompt"
       /\ result.val.context_block = <<>>
       /\ result.val.chunk_text = call.a

\* C25: a prompt without context block has been built after the search raised
C25_Witness ==
    /\ call.fn = "ChunkPrompt"
    /\ result.done
    /\ call.b.has_cognee
    /\ call.b.loop = "idle"
    /\ call.b.search.raises
    /\ result.val.t = "prompt"
    /\ result.val.context_block = <<>>

\* The response fields of the stream lines that decode to a JSON object with
\* such a field, joined in order
RECURSIVE Responded(_)
Responded(lines) ==
    IF lines = <<>> THEN <<>>
    ELSE LET obj == json_loads(lines[1])
         IN  (IF obj.ok /\ IsDict(obj.val) /\ k_response \in DOMAIN obj.val.v
              THEN obj.val.v[k_response].v ELSE <<>>) \o Responded(Tail(lines))

\* C26: when the HTTP request succeeds, call_local_llm returns the trimmed
\* concatenation, in order, of the response fields of the stream lines that
\* parse as JSON, empty lines and lines without the field skipped, and None
\* only when that concatenation is empty.
C26_AssembledText ==
    (call.fn = "call_local_llm" /\ result.done /\ call.a.ok) =>
        result.val = IF Strip(Responded(call.a.lines)) # <<>>
                     THEN Str(Strip(Responded(call.a.lines)))
                     ELSE None

\* C28: the frame list extract_frames returns has non-decreasing timestamps
\* in list order, whatever the numbers of extracted image files and of
\* reported pts_time values.
C28_FramesInTimeOrder ==
    (call.fn = "extract_frames" /\ result.done) => InTimeOrder(result.val)

\* e ran since the latest generation call was issued
Ran(e) == \E k \in 1..Len(since_call) : since_call[k] = e

C29_WrittenAtMostOnce ==
    [][/\ \A path \in DOMAIN files : path \in DOMAIN files' /\ files'[path] = files[path]
       /\ (pc = "frames" /\ pc' = "transcribe") => ~exists(frames_path(video_id))]_vars

\* C30: chunking terminates for every text and every integer target the
\* environment can supply: every iteration of the loop of
\* chunk_text_by_words strictly increases the word index.
C30_IndexIncreases ==
    [][(call.fn = "chunking" /\ ~result.done /\ ~result'.done)
           => result'.val.i > result.val.i]_vars

=============================================================================
